---- MODULE Spec2Model ----
(***************************************************************************)
(* Model of fix_unfinished_exp.py: the trial substitution engine of        *)
(* fuzzbench-helper.  CSV cells are strings; int() and str() are modelled  *)
(* by tables so that a cell such as "01" parses to 1 but is written back   *)
(* as "1".                                                                  *)
(***************************************************************************)
EXTENDS Integers, Sequences, FiniteSets, TLC

\* ------------------------------------------------------------------ bounds
MaxTid == 2
MaxTime == 2
MaxSelTid == 3
MaxSelRows == 3
MaxUnRows == 2
MaxSubRows == 2
MaxSpeedRows == 2
MaxTrialItems == 2
MaxTimeItems == 1
MaxPlan == 2
MainUnRows == 1
MainSubRows == 2
MainSpeedRows == 1

\* ------------------------------------------------------- cells and parsing
\* str(n) for n in 0..9, and a non-canonical spelling of the same integer
\* that int() also accepts (leading zero).
DecText == <<"0", "1", "2", "3", "4", "5", "6", "7", "8", "9">>
PadText == <<"00", "01", "02", "03", "04", "05", "06", "07", "08", "09">>

Str(n) == DecText[n + 1]
Pad(n) == PadText[n + 1]

\* int(cell) succeeds
IsIntCell(s) == \E n \in 0..9 : s = DecText[n + 1] \/ s = PadText[n + 1]

\* int(cell), for a cell on which it succeeds
IntOf(s) == CHOOSE n \in 0..9 : s = DecText[n + 1] \/ s = PadText[n + 1]

Fuzzers == {"afl", "hf"}
Benchmarks == {"png"}

\* A row of a data CSV is a record of the cells of the four columns
\* trial_id, time, fuzzer and benchmark, plus origin: the file the row
\* object was read from ("un" or "sub").

\* ------------------------------------------------------------ seq helpers
Indices(seq) == [i \in 1..Len(seq) |-> i]

\* the elements of a finite set of integers as an ascending sequence
SortAsc(S) ==
    [i \in 1..Cardinality(S) |->
        CHOOSE x \in S : Cardinality({y \in S : y < x}) = i - 1]

SeqMax(seq, dflt) ==
    IF seq = <<>> THEN dflt
    ELSE CHOOSE m \in {seq[i] : i \in DOMAIN seq} :
            \A i \in DOMAIN seq : seq[i] <= m

\* ------------------------------------------------ core logic (data.csv)
\* group_by_trial raises SystemExit unless every trial_id parses
GroupOk(rows) == \A i \in DOMAIN rows : IsIntCell(rows[i].trial_id)

\* keys of the dict built by group_by_trial, in insertion order
TrialIds(rows) ==
    LET first(i) == \A j \in 1..(i - 1) :
                        IntOf(rows[j].trial_id) # IntOf(rows[i].trial_id)
        idx == SelectSeq(Indices(rows), first)
    IN  [k \in 1..Len(idx) |-> IntOf(rows[idx[k]].trial_id)]

\* by_tid[tid]: the rows of one trial in file order
TrialRows(rows, tid) ==
    SelectSeq(rows, LAMBDA r : IntOf(r.trial_id) = tid)

\* max_time_for_trial raises SystemExit unless every time parses
TimeOk(trows) == \A i \in DOMAIN trows : IsIntCell(trows[i].time)

MaxTimeForTrial(trows) ==
    SeqMax([i \in 1..Len(trows) |-> IntOf(trows[i].time)], -1)

\* _mode: most frequent non-empty value, the first one seen on a tie of
\* counts (Counter.most_common(1)); "" when every value is empty
Mode(values) ==
    LET nz == SelectSeq(values, LAMBDA v : v # "")
        cnt(v) == Cardinality({i \in DOMAIN nz : nz[i] = v})
        best == SeqMax([i \in 1..Len(nz) |-> cnt(nz[i])], 0)
        at == CHOOSE i \in DOMAIN nz :
                /\ cnt(nz[i]) = best
                /\ \A j \in 1..(i - 1) : cnt(nz[j]) # best
    IN  IF nz = <<>> THEN "" ELSE nz[at]

FuzzerBenchForTrial(trows) ==
    << Mode([i \in 1..Len(trows) |-> trows[i].fuzzer]),
       Mode([i \in 1..Len(trows) |-> trows[i].benchmark]) >>

\* ------------------------------------------------------ candidate selector
\* the identity compared on the fuzzer alone
MatchingTids_FuzzerOnly(rows, target_fb) ==
    SelectSeq(TrialIds(rows),
              LAMBDA t : FuzzerBenchForTrial(TrialRows(rows, t))[1] = target_fb[1])

\* the trial ids whose identity equals the target, in dict order
MatchingTids(rows, target_fb) ==
    SelectSeq(TrialIds(rows),
              LAMBDA t : FuzzerBenchForTrial(TrialRows(rows, t)) = target_fb)

\* a slip in the completeness test: ">" where the code has ">="
Candidates_StrictlyAbove(rows, trial_time, target_fb, allow_incomplete) ==
    SelectSeq(MatchingTids(rows, target_fb),
              LAMBDA t : allow_incomplete
                         \/ MaxTimeForTrial(TrialRows(rows, t)) > trial_time)

\* the completeness test of line 107 left out: every trial of the target
\* identity is a candidate whatever the flag
Candidates_NoCompletenessTest(rows, trial_time, target_fb, allow_incomplete) ==
    MatchingTids(rows, target_fb)

\* the candidates list built by the loop of lines 103-108
Candidates(rows, trial_time, target_fb, allow_incomplete) ==
    SelectSeq(MatchingTids(rows, target_fb),
              LAMBDA t : allow_incomplete
                         \/ MaxTimeForTrial(TrialRows(rows, t)) >= trial_time)

\* a slip in the tie test: a candidate below the best counts as a tie only
\* if it is above it, so no tie is ever seen
BestTies_NeverSeen(rows, cands, best_tid, best_time) ==
    {i \in DOMAIN cands :
        MaxTimeForTrial(TrialRows(rows, cands[i])) > best_time
        /\ cands[i] # best_tid}

\* ties of line 118: the other candidates that reach the best time
BestTies(rows, cands, best_tid, best_time) ==
    {i \in DOMAIN cands :
        MaxTimeForTrial(TrialRows(rows, cands[i])) = best_time
        /\ cands[i] # best_tid}

NoResult(status) == [status |-> status, tid |-> 0, rows |-> <<>>]

\* the sort of line 116 without reverse=True: the first of the least
BestIndex_Ascending(rows, cands) ==
    CHOOSE i \in DOMAIN cands :
        /\ \A j \in DOMAIN cands :
              MaxTimeForTrial(TrialRows(rows, cands[j]))
                  >= MaxTimeForTrial(TrialRows(rows, cands[i]))
        /\ \A j \in 1..(i - 1) :
              MaxTimeForTrial(TrialRows(rows, cands[j]))
                  # MaxTimeForTrial(TrialRows(rows, cands[i]))

\* candidates.sort(key=lambda x: x[2], reverse=True) is stable, so element 0
\* is the first candidate, in list order, that reaches the greatest max time
BestIndex(rows, cands) ==
    CHOOSE i \in DOMAIN cands :
        /\ \A j \in DOMAIN cands :
              MaxTimeForTrial(TrialRows(rows, cands[j]))
                  <= MaxTimeForTrial(TrialRows(rows, cands[i]))
        /\ \A j \in 1..(i - 1) :
              MaxTimeForTrial(TrialRows(rows, cands[j]))
                  # MaxTimeForTrial(TrialRows(rows, cands[i]))

FindUniqueFinishedCandidateByFb(rows, trial_time, target_fb, allow_incomplete) ==
    LET match == MatchingTids(rows, target_fb)
        cands == Candidates(rows, trial_time, target_fb, allow_incomplete)
        mt(t) == MaxTimeForTrial(TrialRows(rows, t))
        \* best_tid, best_time = candidates[0] after the sort
        best_tid == cands[BestIndex(rows, cands)]
        best_time == mt(best_tid)
        ties == BestTies(rows, cands, best_tid, best_time)
    IN  IF \E i \in DOMAIN match : ~TimeOk(TrialRows(rows, match[i]))
          THEN NoResult("FormatError")
        ELSE IF cands = <<>> THEN NoResult("NoCandidate")
        ELSE IF allow_incomplete
          THEN IF ties # {} THEN NoResult("Ambiguous")
               ELSE [status |-> "ok", tid |-> best_tid,
                     rows |-> TrialRows(rows, best_tid)]
        ELSE IF Len(cands) > 1 THEN NoResult("Ambiguous")
        ELSE [status |-> "ok", tid |-> cands[1],
              rows |-> TrialRows(rows, cands[1])]


\* ------------------------------------------------------ trial classifier
\* list_unfinished_trials before its final sort: one entry per trial with
\* max_time < trial_time, in dict order
UnfinishedInDictOrder(rows, trial_time) ==
    LET un == SelectSeq(TrialIds(rows),
                  LAMBDA t : MaxTimeForTrial(TrialRows(rows, t)) < trial_time)
    IN  [i \in 1..Len(un) |->
            [tid |-> un[i],
             fuzzer |-> FuzzerBenchForTrial(TrialRows(rows, un[i]))[1],
             benchmark |-> FuzzerBenchForTrial(TrialRows(rows, un[i]))[2],
             mt |-> MaxTimeForTrial(TrialRows(rows, un[i]))]]

\* sorted(unfinished, key=lambda x: x[0]); trial ids are distinct dict keys
SortedByTid(metas) ==
    LET tids == SortAsc({metas[i].tid : i \in DOMAIN metas})
    IN  [i \in 1..Len(metas) |->
            metas[CHOOSE k \in DOMAIN metas : metas[k].tid = tids[i]]]

\* the final sort forgotten
ListUnfinishedTrials_Unsorted(rows, trial_time) ==
    UnfinishedInDictOrder(rows, trial_time)

ListUnfinishedTrials(rows, trial_time) ==
    SortedByTid(UnfinishedInDictOrder(rows, trial_time))

\* ---------------------------------------------------- substitution planner
\* the destination id not written into the copied row
RewriteRow_KeepsSourceId(r, dest_tid) == r

\* nr = dict(r); nr["trial_id"] = str(dest_tid)
RewriteRow(r, dest_tid) == [r EXCEPT !.trial_id = Str(dest_tid)]

RECURSIVE Concat(_)
Concat(seqs) ==
    IF seqs = <<>> THEN <<>> ELSE Head(seqs) \o Concat(Tail(seqs))

SubstResult(status, new_rows, tids, plan) ==
    [status |-> status, new_rows |-> new_rows, unfinished_tids |-> tids,
     plan |-> plan]

\* lines 159-164: one selection per unfinished trial, in plan order
FindAll(substitute_rows, trial_time, allow_incomplete, unfinished_meta) ==
    [i \in 1..Len(unfinished_meta) |->
        FindUniqueFinishedCandidateByFb(substitute_rows, trial_time,
            <<unfinished_meta[i].fuzzer, unfinished_meta[i].benchmark>>,
            allow_incomplete)]

\* lines 169-183: the finished trials' rows as they are, then per plan entry
\* the rows of the chosen source under the destination id
BuildOutput(unfinished_rows, unfinished_meta, found) ==
    LET unfinished_tid_set == {unfinished_meta[i].tid : i \in DOMAIN unfinished_meta}
        kept == SelectSeq(unfinished_rows,
                    LAMBDA r : IntOf(r.trial_id) \notin unfinished_tid_set)
        replaced == [i \in 1..Len(unfinished_meta) |->
                        [k \in 1..Len(found[i].rows) |->
                            RewriteRow(found[i].rows[k], unfinished_meta[i].tid)]]
    IN  kept \o Concat(replaced)

\* lines 155-183 once every selection is made: the first failing selection
\* raises SystemExit, otherwise (new_rows, unfinished_tids, plan)
PlanAndOutput(unfinished_rows, unfinished_meta, found) ==
    LET failed == {i \in DOMAIN found : found[i].status # "ok"}
    IN  IF failed # {}
          THEN SubstResult(found[CHOOSE i \in failed : \A j \in failed : i <= j].status,
                           <<>>, <<>>, <<>>)
          ELSE SubstResult("ok",
                  BuildOutput(unfinished_rows, unfinished_meta, found),
                  [i \in 1..Len(unfinished_meta) |-> unfinished_meta[i].tid],
                  [i \in 1..Len(unfinished_meta) |->
                      [dest |-> unfinished_meta[i].tid,
                       fuzzer |-> unfinished_meta[i].fuzzer,
                       benchmark |-> unfinished_meta[i].benchmark,
                       src |-> found[i].tid]])

\* lines 156-183 for a given unfinished_meta; the selections are computed
\* once and then used as a value
PlanFor(unfinished_rows, substitute_rows, trial_time, allow_incomplete, unfinished_meta) ==
    CHOOSE r \in
        {PlanAndOutput(unfinished_rows, unfinished_meta, found) :
            found \in {FindAll(substitute_rows, trial_time, allow_incomplete,
                               unfinished_meta)}} : TRUE

\* substitute_trials; unfinished_meta is computed once and used as a value
SubstituteTrials(unfinished_rows, substitute_rows, trial_time, allow_incomplete) ==
    IF ~GroupOk(unfinished_rows) \/ ~GroupOk(substitute_rows)
      THEN SubstResult("FormatError", <<>>, <<>>, <<>>)
    ELSE IF \E i \in DOMAIN unfinished_rows : ~IsIntCell(unfinished_rows[i].time)
      THEN SubstResult("FormatError", <<>>, <<>>, <<>>)
    ELSE CHOOSE r \in
            {PlanFor(unfinished_rows, substitute_rows, trial_time,
                     allow_incomplete, unfinished_meta) :
                unfinished_meta \in
                    {ListUnfinishedTrials(unfinished_rows, trial_time)}} : TRUE

\* ------------------------------------------------- throughput CSV helpers
\* float(cell): speeds are held in hundredths; "2.5" and "2.50" are two
\* spellings of one float, "nan" parses to not-a-number
FloatText == <<"1.00", "2.50", "2.5", "3.25", "nan">>
FloatHundredths == <<100, 250, 250, 325, 0>>

IsFloatCell(s) == \E i \in DOMAIN FloatText : FloatText[i] = s

\* a speed: not-a-number, or a number of hundredths
Num(h) == [nan |-> FALSE, x |-> h]
NaN == [nan |-> TRUE, x |-> 0]

FloatOf(s) ==
    IF s = "nan" THEN NaN
    ELSE Num(FloatHundredths[CHOOSE i \in DOMAIN FloatText : FloatText[i] = s])

\* an elapsed time: None, or float seconds
NoTime == [none |-> TRUE, t |-> 0]
Secs(t) == [none |-> FALSE, t |-> t]

\* the (speed, time) tuple held per trial
Pair(spd, time) == [speed |-> spd, time |-> time]

\* dicts as functions; a missing key is a point outside the domain
EmptyMap == [x \in {} |-> 0]
\* an assignment that rebinds the dict to the one new item
Put_DropsTheRest(m, k, v) == [x \in {k} |-> v]

Put(m, k, v) == [x \in (DOMAIN m) \cup {k} |-> IF x = k THEN v ELSE m[x]]

\* one whitespace-separated item of a trials / trial_times field:
\* "tid:val" (colon TRUE) or a bare "val" (colon FALSE, tid "")
Item(tid, colon, val) == [tid |-> tid, colon |-> colon, val |-> val]

\* item.split(":", 1) unpacks into two parts and both parts convert
SpeedItemOk(it) == it.colon /\ IsIntCell(it.tid) /\ IsFloatCell(it.val)
TimeItemOk(it) == it.colon /\ IsIntCell(it.tid) /\ IsIntCell(it.val)

\* lines 213-215: res[key][int(tid_s)] = (float(val_s), None), in order
RECURSIVE PutSpeeds(_, _)
PutSpeeds(tmap, items) ==
    IF items = <<>> THEN tmap
    ELSE PutSpeeds(Put(tmap, IntOf(Head(items).tid),
                       Pair(FloatOf(Head(items).val), NoTime)),
                   Tail(items))

\* lines 220-227: a time joins the speed already held for the trial id, or
\* is inserted with a not-a-number speed
RECURSIVE PutTimes(_, _)
PutTimes(tmap, items) ==
    IF items = <<>> THEN tmap
    ELSE LET tid == IntOf(Head(items).tid)
             t == Secs(IntOf(Head(items).val))
         IN  PutTimes(Put(tmap, tid,
                          IF tid \in DOMAIN tmap
                            THEN Pair(tmap[tid].speed, t)
                            ELSE Pair(NaN, t)),
                      Tail(items))

ReadResult(status, res) == [status |-> status, res |-> res]

\* the body of the row loop of read_speeds_csv (lines 201-227)
ReadSpeedsRow(res, has_times, row) ==
    LET key == <<row.benchmark, row.fuzzer>>
        old == IF key \in DOMAIN res THEN res[key] ELSE EmptyMap
        withSpeeds == PutSpeeds(old, row.trials)
    IN  IF row.trials = <<>> THEN ReadResult("ok", res)
        ELSE IF \A i \in DOMAIN row.trials : ~row.trials[i].colon
          THEN ReadResult("FormatError", res)
        ELSE IF \E i \in DOMAIN row.trials : ~SpeedItemOk(row.trials[i])
          THEN ReadResult("ValueError", res)
        ELSE IF ~has_times \/ row.trial_times = <<>>
          THEN ReadResult("ok", Put(res, key, withSpeeds))
        ELSE IF \E i \in DOMAIN row.trial_times : ~TimeItemOk(row.trial_times[i])
          THEN ReadResult("ValueError", res)
        ELSE ReadResult("ok", Put(res, key, PutTimes(withSpeeds, row.trial_times)))

RECURSIVE ReadSpeedsRows(_, _, _)
ReadSpeedsRows(res, has_times, rows) ==
    IF rows = <<>> THEN ReadResult("ok", res)
    ELSE LET one == ReadSpeedsRow(res, has_times, Head(rows))
         IN  IF one.status # "ok" THEN one
             ELSE ReadSpeedsRows(one.res, has_times, Tail(rows))

\* read_speeds_csv of a file that exists
ReadSpeedsCsv(file) == ReadSpeedsRows(EmptyMap, file.has_times, file.rows)

\* the substitute record looked up under (fuzzer, bench)
PlanKey_Swapped(e) == <<e.fuzzer, e.benchmark>>

\* key = (bench, fuzzer)
PlanKey(e) == <<e.benchmark, e.fuzzer>>

\* apply_substitution_plan_to_speeds: the loop over the plan, mutating
\* speeds_unfinished in place until an entry cannot be served
RECURSIVE ApplySubstitutionPlanToSpeeds(_, _, _)
ApplySubstitutionPlanToSpeeds(speeds_unfinished, speeds_substitute, entries) ==
    IF entries = <<>> THEN ReadResult("ok", speeds_unfinished)
    ELSE LET e == Head(entries)
             key == PlanKey(e)
             dest_map == IF key \in DOMAIN speeds_unfinished
                           THEN speeds_unfinished[key] ELSE EmptyMap
         IN  IF key \notin DOMAIN speeds_substitute
               THEN ReadResult("MissingKey", speeds_unfinished)
             ELSE IF e.src \notin DOMAIN speeds_substitute[key]
               THEN ReadResult("MissingTrial", speeds_unfinished)
             ELSE ApplySubstitutionPlanToSpeeds(
                      Put(speeds_unfinished, key,
                          Put(dest_map, e.dest, speeds_substitute[key][e.src])),
                      speeds_substitute, Tail(entries))

\* --------------------------------------------------------- write_speeds_csv
\* sorted() on names: the lexicographic order of the texts in use
TextOrder == <<"", "afl", "hf", "png">>

Rank(s) == CHOOSE i \in DOMAIN TextOrder : TextOrder[i] = s

\* for bench in sorted(benches): for fuzz in sorted(by_bench[bench])
SortedKeys(res) ==
    LET rank(k) == Rank(k[1]) * (Len(TextOrder) + 1) + Rank(k[2])
        ranks == SortAsc({rank(k) : k \in DOMAIN res})
    IN  [i \in 1..Len(ranks) |-> CHOOSE k \in DOMAIN res : rank(k) = ranks[i]]

RECURSIVE Sum(_)
Sum(seq) == IF seq = <<>> THEN 0 ELSE Head(seq) + Sum(Tail(seq))

RECURSIVE SumSq(_)
SumSq(seq) ==
    IF seq = <<>> THEN 0 ELSE Head(seq) * Head(seq) + SumSq(Tail(seq))

\* vals = [v for (v, _t) in tmap.values() if not _is_nan(v)], in hundredths;
\* statistics sums exact fractions, so the order of the values has no effect
NumericSpeeds(tmap) ==
    LET tids == SortAsc(DOMAIN tmap)
        live == SelectSeq(tids, LAMBDA t : ~tmap[t].speed.nan)
    IN  [i \in 1..Len(live) |-> tmap[live[i]].speed.x]

\* num / den to the nearest whole, a tie to the even neighbour: what ".2f"
\* prints of a quotient of hundredths that is exact in binary
RoundHalfEven(num, den) ==
    LET q == num \div den
        r == num % den
    IN  IF 2 * r < den THEN q
        ELSE IF 2 * r > den THEN q + 1
        ELSE IF q % 2 = 0 THEN q ELSE q + 1

\* sqrt(num / den) to the nearest whole; the root lies within the range of
\* the values, and no tie exists for den = n * (n - 1) with n in 2..3
RoundedRoot(num, den, range) ==
    CHOOSE s \in 0..range :
        /\ s > 0 => (2 * s - 1) * (2 * s - 1) * den <= 4 * num
        /\ 4 * num < (2 * s + 1) * (2 * s + 1) * den

\* mean = statistics.mean(vals) if vals else float("nan"), as _fmt_num prints it
Mean(vals) ==
    IF vals = <<>> THEN NaN
    ELSE Num(RoundHalfEven(Sum(vals), Len(vals)))

\* the population deviation, n in place of n - 1
Stdev_Population(vals) ==
    LET n == Len(vals)
    IN  IF n > 1
          THEN RoundedRoot(n * SumSq(vals) - Sum(vals) * Sum(vals), n * n,
                           SeqMax(vals, 0))
        ELSE 0

\* stdev = statistics.stdev(vals) if len(vals) > 1 else 0.0, as ".2f" prints
\* it: the sample deviation, sqrt((n * sum(x^2) - sum(x)^2) / (n * (n - 1)))
Stdev(vals) ==
    LET n == Len(vals)
    IN  IF n > 1
          THEN RoundedRoot(n * SumSq(vals) - Sum(vals) * Sum(vals),
                           n * (n - 1), SeqMax(vals, 0))
        ELSE 0

\* trials_field: "tid:speed" per trial in trial id order, NaN speeds included
TrialsField(tmap) ==
    LET tids == SortAsc(DOMAIN tmap)
    IN  [i \in 1..Len(tids) |-> [tid |-> tids[i], speed |-> tmap[tids[i]].speed]]

\* times_field: "tid:int(t)" per trial whose time is not None
TimesField(tmap) ==
    LET tids == SelectSeq(SortAsc(DOMAIN tmap), LAMBDA t : ~tmap[t].time.none)
    IN  [i \in 1..Len(tids) |-> [tid |-> tids[i], t |-> tmap[tids[i]].time.t]]

\* one written record; a two-decimal text is held as its hundredths
SpeedsRow(key, tmap) ==
    [benchmark |-> key[1], fuzzer |-> key[2],
     mean |-> Mean(NumericSpeeds(tmap)),
     stdev |-> Stdev(NumericSpeeds(tmap)),
     num_trials |-> Cardinality(DOMAIN tmap),
     trials |-> TrialsField(tmap),
     trial_times |-> TimesField(tmap)]

\* write_speeds_csv: the records below the header line
WriteSpeedsCsv(res) ==
    LET keys == SortedKeys(res)
    IN  [i \in 1..Len(keys) |-> SpeedsRow(keys[i], res[keys[i]])]

\* ------------------------------------------------------------------ state
VARIABLES
    pc,                \* position in the run
    err,               \* the fatal condition that ended the run, "" if none
    un_rows,           \* rows read from the unfinished data CSV
    sub_rows,          \* rows read from the substitute data CSV
    trial_time,        \* --trial-time
    allow_incomplete,  \* --allow-incomplete-substitute
    target_fb,         \* the selector's target identity
    sel,               \* the selector's result
    fixed_rows,        \* substitute_trials: new_rows
    swapped_tids,      \* substitute_trials: unfinished_tids
    plan,              \* substitute_trials: plan
    un_speeds_csv,     \* content of the unfinished throughput CSV
    sub_speeds_csv,    \* content of the substitute throughput CSV
    speeds_unfinished, \* read_speeds_csv of the former; patched in place
    speeds_substitute, \* read_speeds_csv of the latter
    speeds_args,       \* which of the three throughput options were given
    out_data,          \* the file at --output-data-csv
    out_speeds,        \* the file at --output-throughput-csv
    events             \* the reads, computations and writes done so far

dataVars == <<un_rows, sub_rows, trial_time, allow_incomplete, fixed_rows,
              swapped_tids>>
speedVars == <<un_speeds_csv, sub_speeds_csv, speeds_unfinished,
               speeds_substitute>>
outVars == <<speeds_args, out_data, out_speeds>>

vars == <<pc, err, un_rows, sub_rows, trial_time, allow_incomplete, target_fb,
          sel, fixed_rows, swapped_tids, plan, un_speeds_csv, sub_speeds_csv,
          speeds_unfinished, speeds_substitute, speeds_args, out_data,
          out_speeds, events>>

NotWritten == [written |-> FALSE, content |-> <<>>]
Written(content) == [written |-> TRUE, content |-> content]

NoOutput ==
    /\ speeds_args = "none"
    /\ out_data = NotWritten /\ out_speeds = NotWritten
    /\ events = <<>>

EmptyFile == [has_times |-> FALSE, rows |-> <<>>]

NoSpeeds ==
    /\ un_speeds_csv = EmptyFile /\ sub_speeds_csv = EmptyFile
    /\ speeds_unfinished = EmptyMap /\ speeds_substitute = EmptyMap

\* datasets of at most n rows over the given cells
SeqsUpTo(S, n) == UNION {[1..k -> S] : k \in 0..n}

SelCells ==
    [trial_id : {Str(i) : i \in 1..MaxSelTid}, time : {Str(i) : i \in 0..MaxTime},
     fuzzer : Fuzzers, benchmark : Benchmarks \cup {""}, origin : {"sub"}]

SelTargets == {<<"afl", "png">>, <<"afl", "">>}

\* --------------------------------------------- the selector on its own
InitSel ==
    /\ pc = "select"
    /\ err = "" /\ un_rows = <<>>
    /\ fixed_rows = <<>> /\ swapped_tids = <<>> /\ plan = <<>>
    /\ NoSpeeds /\ NoOutput
    /\ sub_rows \in SeqsUpTo(SelCells, MaxSelRows)
    /\ trial_time \in 1..MaxTime
    /\ allow_incomplete \in BOOLEAN
    /\ target_fb \in SelTargets
    /\ sel = NoResult("pending")

Select ==
    /\ pc = "select"
    /\ sel' = FindUniqueFinishedCandidateByFb(sub_rows, trial_time, target_fb,
                                              allow_incomplete)
    /\ pc' = "selected"
    /\ UNCHANGED <<err, un_rows, sub_rows, trial_time, allow_incomplete,
                   target_fb, fixed_rows, swapped_tids, plan, speedVars,
                   outVars, events>>

NextSel == Select

SpecSel == InitSel /\ [][NextSel]_vars

\* ------------------------------------------ substitute_trials on its own
DataCells(origin) ==
    [trial_id : {Str(i) : i \in 1..MaxTid}
                    \cup (IF origin = "un" THEN {Pad(1)} ELSE {}),
     time : {Str(i) : i \in 0..MaxTime},
     fuzzer : Fuzzers, benchmark : Benchmarks, origin : {origin}]

InitSub ==
    /\ pc = "substitute"
    /\ err = ""
    /\ un_rows \in SeqsUpTo(DataCells("un"), MaxUnRows)
    /\ sub_rows \in SeqsUpTo(DataCells("sub"), MaxSubRows)
    /\ trial_time \in 1..MaxTime
    /\ allow_incomplete \in BOOLEAN
    /\ target_fb = <<"", "">>
    /\ sel = NoResult("pending")
    /\ fixed_rows = <<>> /\ swapped_tids = <<>> /\ plan = <<>>
    /\ NoSpeeds /\ NoOutput

Substitute ==
    /\ pc = "substitute"
    /\ \E r \in {SubstituteTrials(un_rows, sub_rows, trial_time, allow_incomplete)} :
           /\ fixed_rows' = r.new_rows
           /\ swapped_tids' = r.unfinished_tids
           /\ plan' = r.plan
           /\ err' = IF r.status = "ok" THEN "" ELSE r.status
           /\ pc' = IF r.status = "ok" THEN "substituted" ELSE "fatal"
    /\ events' = Append(events, "substitute_trials")
    /\ UNCHANGED <<un_rows, sub_rows, trial_time, allow_incomplete, target_fb,
                   sel, speedVars, outVars>>

NextSub == Substitute

SpecSub == InitSub /\ [][NextSub]_vars

\* ---------------------------------------------- read_speeds_csv on its own
SpeedKeys == {<<b, f>> : b \in Benchmarks, f \in Fuzzers}

TrialItems ==
    {Item(Str(t), TRUE, v) : t \in 1..MaxTid, v \in {"1.00", "2.5"}}
        \cup {Item("", FALSE, "1.00")}
TimeItems == {Item(Str(t), TRUE, "5") : t \in 1..MaxTid}

SpeedRows ==
    [benchmark : Benchmarks, fuzzer : Fuzzers,
     trials : SeqsUpTo(TrialItems, MaxTrialItems),
     trial_times : SeqsUpTo(TimeItems, MaxTimeItems)]

SpeedFiles == [has_times : BOOLEAN, rows : SeqsUpTo(SpeedRows, MaxSpeedRows)]

NoData ==
    /\ un_rows = <<>> /\ sub_rows = <<>> /\ trial_time = 1
    /\ allow_incomplete = FALSE /\ target_fb = <<"", "">>
    /\ sel = NoResult("pending")
    /\ fixed_rows = <<>> /\ swapped_tids = <<>>

InitSpeeds ==
    /\ pc = "read_speeds"
    /\ err = ""
    /\ NoData /\ plan = <<>>
    /\ un_speeds_csv \in SpeedFiles
    /\ sub_speeds_csv = EmptyFile
    /\ speeds_unfinished = EmptyMap /\ speeds_substitute = EmptyMap
    /\ NoOutput

\* speeds_unfinished = read_speeds_csv(unfinished_speeds_path)
ReadSpeedsUnfinished ==
    /\ pc = "read_speeds"
    /\ LET r == ReadSpeedsCsv(un_speeds_csv)
       IN  /\ speeds_unfinished' = IF r.status = "ok" THEN r.res ELSE EmptyMap
           /\ err' = IF r.status = "ok" THEN "" ELSE r.status
           /\ pc' = IF r.status = "ok" THEN "speeds_read" ELSE "fatal"
    /\ events' = Append(events, "read_unfinished_speeds")
    /\ UNCHANGED <<dataVars, target_fb, sel, plan, un_speeds_csv,
                   sub_speeds_csv, speeds_substitute, outVars>>

NextSpeeds == ReadSpeedsUnfinished

SpecSpeeds == InitSpeeds /\ [][NextSpeeds]_vars

\* ------------------------- apply_substitution_plan_to_speeds on its own
UnPairs == {Pair(Num(100), NoTime), Pair(Num(250), Secs(5))}
SubPairs == {Pair(Num(325), Secs(7)), Pair(NaN, Secs(5))}

\* the non-empty per-trial maps over the trial ids, with values in pairs
TrialMaps(pairs) ==
    UNION {[T -> pairs] : T \in (SUBSET (1..MaxTid)) \ {{}}}

\* SpeedResults: a per-trial map for some of the keys
SpeedResultsOver(pairs) ==
    UNION {[K -> TrialMaps(pairs)] : K \in SUBSET SpeedKeys}

PlanEntries ==
    [dest : 1..MaxTid, fuzzer : Fuzzers, benchmark : Benchmarks,
     src : 1..MaxTid]

\* plans as substitute_trials builds them: destinations strictly ascending
Plans ==
    {p \in SeqsUpTo(PlanEntries, MaxPlan) :
        \A i, j \in DOMAIN p : i < j => p[i].dest < p[j].dest}

InitApply ==
    /\ pc = "apply"
    /\ err = ""
    /\ NoData
    /\ plan \in Plans
    /\ un_speeds_csv = EmptyFile /\ sub_speeds_csv = EmptyFile
    /\ speeds_unfinished \in SpeedResultsOver(UnPairs)
    /\ speeds_substitute \in SpeedResultsOver(SubPairs)
    /\ NoOutput

\* merged = apply_substitution_plan_to_speeds(...)
ApplyPlan ==
    /\ pc = "apply"
    /\ LET r == ApplySubstitutionPlanToSpeeds(speeds_unfinished,
                                               speeds_substitute, plan)
       IN  /\ speeds_unfinished' = r.res
           /\ err' = IF r.status = "ok" THEN "" ELSE r.status
           /\ pc' = IF r.status = "ok" THEN "applied" ELSE "fatal"
    /\ events' = Append(events, "apply_plan")
    /\ UNCHANGED <<dataVars, target_fb, sel, plan, un_speeds_csv,
                   sub_speeds_csv, speeds_substitute, outVars>>

\* write_speeds_csv(args.output_throughput_csv, merged), line 385
WriteSpeeds ==
    /\ pc = "applied"
    /\ out_speeds' = Written(WriteSpeedsCsv(speeds_unfinished))
    /\ events' = Append(events, "write_speeds")
    /\ pc' = "done"
    /\ UNCHANGED <<err, dataVars, target_fb, sel, plan, speedVars,
                   speeds_args, out_data>>

NextApply ==
    \/ ApplyPlan
    \/ WriteSpeeds

SpecApply == InitApply /\ [][NextApply]_vars

\* ------------------------------------------------------------------- main
\* What main does between parse_args and its last print.  The gzip
\* extraction into the temporary directory and the header union are left
\* out: the four modelled columns are always in the written header.
MainCells(origin) ==
    [trial_id : {Str(i) : i \in 1..MaxTid} \cup {"x"},
     time : {Str(0), Str(MaxTime), "x"},
     fuzzer : {"afl"}, benchmark : Benchmarks, origin : {origin}]

MainSpeedFiles ==
    [has_times : {FALSE},
     rows : SeqsUpTo([benchmark : Benchmarks, fuzzer : Fuzzers,
                      trials : {<<>>, <<Item("", FALSE, "1.00")>>,
                                <<Item(Str(1), TRUE, "1.00")>>,
                                <<Item(Str(MaxTid), TRUE, "2.5")>>},
                      trial_times : {<<>>}],
                     MainSpeedRows)]

Init ==
    /\ pc = "check_inputs"
    /\ err = ""
    /\ un_rows = <<>> /\ sub_rows = <<>>
    /\ trial_time \in 1..MaxTime
    /\ allow_incomplete \in BOOLEAN
    /\ target_fb = <<"", "">>
    /\ sel = NoResult("pending")
    /\ fixed_rows = <<>> /\ swapped_tids = <<>> /\ plan = <<>>
    /\ NoSpeeds
    /\ speeds_args \in {"none", "partial", "all"}
    /\ out_data = NotWritten /\ out_speeds = NotWritten
    /\ events = <<>>

Fatal(kind) == pc' = "fatal" /\ err' = kind

\* lines 326-329: both data files must exist
CheckInputs ==
    /\ pc = "check_inputs"
    /\ \E un_exists, sub_exists \in BOOLEAN :
          IF un_exists /\ sub_exists
            THEN pc' = "check_args" /\ err' = err
            ELSE Fatal("MissingInput")
    /\ UNCHANGED <<dataVars, target_fb, sel, plan, speedVars, outVars, events>>

\* lines 332-335: the throughput options come all three or not at all
CheckThroughputArgs ==
    /\ pc = "check_args"
    /\ IF speeds_args = "partial"
         THEN Fatal("Usage")
         ELSE pc' = "read_unfinished" /\ err' = err
    /\ UNCHANGED <<dataVars, target_fb, sel, plan, speedVars, outVars, events>>

\* line 350
ReadUnfinished ==
    /\ pc = "read_unfinished"
    /\ un_rows' \in SeqsUpTo(MainCells("un"), MainUnRows)
    /\ events' = Append(events, "read_unfinished")
    /\ pc' = "read_substitute"
    /\ UNCHANGED <<err, sub_rows, trial_time, allow_incomplete, fixed_rows,
                   swapped_tids, target_fb, sel, plan, speedVars, outVars>>

\* line 351
ReadSubstitute ==
    /\ pc = "read_substitute"
    /\ sub_rows' \in SeqsUpTo(MainCells("sub"), MainSubRows)
    /\ events' = Append(events, "read_substitute")
    /\ pc' = "substitute"
    /\ UNCHANGED <<err, un_rows, trial_time, allow_incomplete, fixed_rows,
                   swapped_tids, target_fb, sel, plan, speedVars, outVars>>

\* line 361 (and the prints of 363-366)
WriteData ==
    /\ pc = "substituted"
    /\ out_data' = Written(fixed_rows)
    /\ events' = Append(events, "write_data")
    /\ pc' = IF speeds_args = "all" THEN "check_speeds" ELSE "done"
    /\ UNCHANGED <<err, dataVars, target_fb, sel, plan, speedVars,
                   speeds_args, out_speeds>>

\* lines 374-377: both throughput inputs must exist
CheckSpeedInputs ==
    /\ pc = "check_speeds"
    /\ \E un_exists, sub_exists \in BOOLEAN :
          IF un_exists /\ sub_exists
            THEN pc' = "read_unfinished_speeds" /\ err' = err
            ELSE Fatal("MissingInput")
    /\ UNCHANGED <<dataVars, target_fb, sel, plan, speedVars, outVars, events>>

\* line 379
MainReadSpeedsUnfinished ==
    /\ pc = "read_unfinished_speeds"
    /\ \E f \in MainSpeedFiles :
          LET r == ReadSpeedsCsv(f)
          IN  /\ un_speeds_csv' = f
              /\ speeds_unfinished' = IF r.status = "ok" THEN r.res ELSE EmptyMap
              /\ err' = IF r.status = "ok" THEN "" ELSE r.status
              /\ pc' = IF r.status = "ok" THEN "read_substitute_speeds" ELSE "fatal"
    /\ events' = Append(events, "read_unfinished_speeds")
    /\ UNCHANGED <<dataVars, target_fb, sel, plan, sub_speeds_csv,
                   speeds_substitute, outVars>>

\* line 380
MainReadSpeedsSubstitute ==
    /\ pc = "read_substitute_speeds"
    /\ \E f \in MainSpeedFiles :
          LET r == ReadSpeedsCsv(f)
          IN  /\ sub_speeds_csv' = f
              /\ speeds_substitute' = IF r.status = "ok" THEN r.res ELSE EmptyMap
              /\ err' = IF r.status = "ok" THEN "" ELSE r.status
              /\ pc' = IF r.status = "ok" THEN "apply" ELSE "fatal"
    /\ events' = Append(events, "read_substitute_speeds")
    /\ UNCHANGED <<dataVars, target_fb, sel, plan, un_speeds_csv,
                   speeds_unfinished, outVars>>

Next ==
    \/ CheckInputs
    \/ CheckThroughputArgs
    \/ ReadUnfinished
    \/ ReadSubstitute
    \/ Substitute
    \/ WriteData
    \/ CheckSpeedInputs
    \/ MainReadSpeedsUnfinished
    \/ MainReadSpeedsSubstitute
    \/ ApplyPlan
    \/ WriteSpeeds

Spec == Init /\ [][Next]_vars

\* ------------------------------------------------------------ selector claims
\* the trial ids present in the substitute dataset
SubTidSet == {IntOf(sub_rows[i].trial_id) : i \in DOMAIN sub_rows}

SubIdentity(t) == FuzzerBenchForTrial(TrialRows(sub_rows, t))
SubMaxTime(t) == MaxTimeForTrial(TrialRows(sub_rows, t))

\* substitute trials with the target identity
Matches == {t \in SubTidSet : SubIdentity(t) = target_fb}
\* ... that are finished
FinishedMatches == {t \in Matches : SubMaxTime(t) >= trial_time}
\* ... that reach the greatest max_time of the matching trials
TopMatches == {t \in Matches : \A u \in Matches : SubMaxTime(u) <= SubMaxTime(t)}

\* C2: with allow_incomplete false the selector considers exactly the
\* finished trials of the target identity: none gives the no-candidate
\* error, two or more the ambiguous-candidate error, exactly one is returned
\* with its rows; a returned trial always has the target identity.
C2_FinishedOnlySelection ==
    (pc = "selected" /\ ~allow_incomplete) =>
        /\ (FinishedMatches = {}) => sel.status = "NoCandidate"
        /\ (Cardinality(FinishedMatches) >= 2) => sel.status = "Ambiguous"
        /\ (Cardinality(FinishedMatches) = 1) =>
              /\ sel.status = "ok"
              /\ sel.tid \in FinishedMatches
              /\ sel.rows = TrialRows(sub_rows, sel.tid)
        /\ (sel.status = "ok") => FuzzerBenchForTrial(sel.rows) = target_fb

\* the single finished candidate is returned although the dataset also
\* holds an unfinished trial of the same identity and a trial of another one
C2_Witness ==
    /\ pc = "selected" /\ ~allow_incomplete /\ sel.status = "ok"
    /\ Matches \ FinishedMatches # {}
    /\ SubTidSet \ Matches # {}

\* C3: with allow_incomplete true every trial of the target identity is
\* considered: none gives the no-candidate error, a shared greatest
\* max_time the ambiguous-candidate error, otherwise the trial whose
\* max_time is strictly above every other matching trial's is returned.
C3_BestEffortSelection ==
    (pc = "selected" /\ allow_incomplete) =>
        /\ (Matches = {}) => sel.status = "NoCandidate"
        /\ (Cardinality(TopMatches) >= 2) => sel.status = "Ambiguous"
        /\ (Cardinality(TopMatches) = 1) =>
              /\ sel.status = "ok"
              /\ sel.tid \in Matches
              /\ \A u \in Matches \ {sel.tid} : SubMaxTime(u) < SubMaxTime(sel.tid)
              /\ sel.rows = TrialRows(sub_rows, sel.tid)

\* an unfinished trial wins over another, slower trial of the same identity
C3_Witness ==
    /\ pc = "selected" /\ allow_incomplete /\ sel.status = "ok"
    /\ Cardinality(Matches) >= 2
    /\ SubMaxTime(sel.tid) < trial_time

\* C4 as stated: for both values of allow_incomplete, two or more finished
\* trials of the target identity make the selector fail as ambiguous.
C4_AlwaysRejectsSeveralFinished ==
    (pc = "selected" /\ Cardinality(FinishedMatches) >= 2) =>
        sel.status = "Ambiguous"

\* C4 amended: two or more finished trials of the target identity are
\* rejected as ambiguous when allow_incomplete is false; when it is true
\* they are rejected if the greatest max_time is shared, and otherwise the
\* one strictly above all the others is returned.
C4_RejectsSeveralFinishedUnlessStrictBest ==
    (pc = "selected" /\ Cardinality(FinishedMatches) >= 2) =>
        /\ ~allow_incomplete => sel.status = "Ambiguous"
        /\ allow_incomplete =>
              \/ sel.status = "Ambiguous" /\ Cardinality(TopMatches) >= 2
              \/ /\ sel.status = "ok"
                 /\ \A u \in FinishedMatches \ {sel.tid} :
                        SubMaxTime(u) < SubMaxTime(sel.tid)

\* two finished trials of the target identity, and the selector returns one
C4_Witness ==
    /\ pc = "selected" /\ Cardinality(FinishedMatches) >= 2
    /\ sel.status = "ok"

\* --------------------------------------------------------- planner claims
UnTidSet == {IntOf(un_rows[i].trial_id) : i \in DOMAIN un_rows}
OutTidSet == {IntOf(fixed_rows[i].trial_id) : i \in DOMAIN fixed_rows}
UnMaxTime(t) == MaxTimeForTrial(TrialRows(un_rows, t))
UnfinishedSet == {t \in UnTidSet : UnMaxTime(t) < trial_time}

\* the rows of a substitute trial as they must appear under a destination:
\* every cell as in the source, trial_id the decimal text of the destination
Renumbered(src, dest) ==
    LET rows == TrialRows(sub_rows, src)
    IN  [k \in 1..Len(rows) |->
            [trial_id |-> Str(dest), time |-> rows[k].time,
             fuzzer |-> rows[k].fuzzer, benchmark |-> rows[k].benchmark,
             origin |-> "sub"]]

\* C5: after a successful substitute_trials the output holds exactly the
\* trial ids of the unfinished dataset; a finished trial keeps exactly its
\* original rows, an unfinished one gets exactly the rows of its chosen
\* source renumbered to the destination id, and no row read from the
\* unfinished dataset survives under an unfinished trial id.
C5_OutputRowsPerTrial ==
    (pc = "substituted") =>
        /\ OutTidSet = UnTidSet
        /\ \A t \in UnTidSet \ UnfinishedSet :
              TrialRows(fixed_rows, t) = TrialRows(un_rows, t)
        /\ \A t \in UnfinishedSet :
              \E i \in DOMAIN plan :
                  /\ plan[i].dest = t
                  /\ TrialRows(fixed_rows, t) = Renumbered(plan[i].src, t)
        /\ \A i \in DOMAIN fixed_rows :
              fixed_rows[i].origin = "un" =>
                  IntOf(fixed_rows[i].trial_id) \notin UnfinishedSet

\* a finished trial is kept next to an unfinished one that is replaced by a
\* source trial carrying another trial id
C5_Witness ==
    /\ pc = "substituted"
    /\ UnfinishedSet # {} /\ UnTidSet \ UnfinishedSet # {}
    /\ \E i \in DOMAIN plan : plan[i].src # plan[i].dest

\* C6: on success the destinations of the plan are exactly the unfinished
\* trials (max_time < threshold) of the unfinished dataset, each once, in
\* strictly ascending order; a finished trial is never a destination.
C6_PlanDestinationsAscending ==
    (pc = "substituted") =>
        [i \in 1..Len(plan) |-> plan[i].dest] = SortAsc(UnfinishedSet)

\* two unfinished trials whose rows come in descending trial id order
C6_Witness ==
    /\ pc = "substituted"
    /\ Len(plan) = 2
    /\ IntOf(un_rows[1].trial_id) > IntOf(un_rows[2].trial_id)

\* C7: two distinct destination trials are never assigned the same source
\* trial id.
C7_PlanOneToOne ==
    (pc = "substituted") =>
        \A i, j \in DOMAIN plan : i # j => plan[i].src # plan[j].src

\* ------------------------------------------------------ projector claims
\* the substitute throughput data cannot serve a plan entry
Unserved(e) ==
    \/ <<e.benchmark, e.fuzzer>> \notin DOMAIN speeds_substitute
    \/ e.src \notin DOMAIN speeds_substitute[<<e.benchmark, e.fuzzer>>]

\* C8: apply_substitution_plan_to_speeds fails fatally exactly when some
\* plan entry's (bench, fuzzer) record or source trial is missing from the
\* substitute throughput data; when it returns, the destination record of
\* every entry maps dest to the (speed, time) pair the substitute record
\* holds for src.
C8_ProjectionCopiesSourcePair ==
    (pc \in {"applied", "fatal"}) =>
        /\ (pc = "fatal") <=> (\E i \in DOMAIN plan : Unserved(plan[i]))
        /\ (pc = "applied") =>
              \A i \in DOMAIN plan :
                  LET key == <<plan[i].benchmark, plan[i].fuzzer>>
                  IN  /\ key \in DOMAIN speeds_unfinished
                      /\ plan[i].dest \in DOMAIN speeds_unfinished[key]
                      /\ speeds_unfinished[key][plan[i].dest]
                            = speeds_substitute[key][plan[i].src]

\* two entries are projected, one of them from a source with another trial
\* id and an elapsed time
C8_Witness ==
    /\ pc = "applied"
    /\ Len(plan) = 2
    /\ \E i \in DOMAIN plan :
          /\ plan[i].src # plan[i].dest
          /\ ~speeds_unfinished[<<plan[i].benchmark, plan[i].fuzzer>>][plan[i].dest].time.none

\* a trials field without ':' separator: a legacy list, or nothing at all
LacksTrialIds(row) == \A i \in DOMAIN row.trials : ~row.trials[i].colon

\* C9: every row whose trials field holds no ':' separator, an empty or
\* missing field included, makes read_speeds_csv fail fatally.
C9_TrialsFieldMandatory ==
    (pc \in {"speeds_read", "fatal"}) =>
        ((\E i \in DOMAIN un_speeds_csv.rows : LacksTrialIds(un_speeds_csv.rows[i]))
            => pc = "fatal")

\* each (benchmark, fuzzer) has one row in the file
OneRowPerKey(file) ==
    \A i, j \in DOMAIN file.rows :
        i # j => <<file.rows[i].benchmark, file.rows[i].fuzzer>>
                    # <<file.rows[j].benchmark, file.rows[j].fuzzer>>

\* the speed the trials field of a row gives a trial id: its last item
SpeedInTrials(row, tid) ==
    LET at == {i \in DOMAIN row.trials : IntOf(row.trials[i].tid) = tid}
    IN  IF at = {} THEN NaN
        ELSE FloatOf(row.trials[CHOOSE i \in at : \A j \in at : j <= i].val)

\* C10: after read_speeds_csv of a file with a trial_times column and one
\* row per (benchmark, fuzzer), every 'tid:seconds' pair of every row is in
\* the parsed record of the row's key, with the parsed speed of tid when
\* the row's trials field lists it and a not-a-number speed when not.
C10_NoTimeEntryDropped ==
    (pc = "speeds_read" /\ un_speeds_csv.has_times /\ OneRowPerKey(un_speeds_csv)) =>
        \A i \in DOMAIN un_speeds_csv.rows :
            LET row == un_speeds_csv.rows[i]
                key == <<row.benchmark, row.fuzzer>>
            IN  \A k \in DOMAIN row.trial_times :
                    LET tid == IntOf(row.trial_times[k].tid)
                    IN  /\ key \in DOMAIN speeds_unfinished
                        /\ tid \in DOMAIN speeds_unfinished[key]
                        /\ speeds_unfinished[key][tid]
                              = Pair(SpeedInTrials(row, tid),
                                     Secs(IntOf(row.trial_times[k].val)))

\* ------------------------------------------------------------- main claims
\* C1: whenever a run of main ends in a fatal error, no output file has
\* been written: neither the primary output dataset nor the throughput
\* output.
C1_NoOutputOnFatal ==
    (pc = "fatal") => (~out_data.written /\ ~out_speeds.written)

ReadEvents ==
    {"read_unfinished", "read_substitute", "read_unfinished_speeds",
     "read_substitute_speeds"}

\* C11: in every run of main no input file is read after a computation
\* step or an output write has been done.
C11_ReadsBeforeComputation ==
    \A i, j \in DOMAIN events :
        (i < j /\ events[j] \in ReadEvents) => events[i] \in ReadEvents

\* the strict search (allow_incomplete unset) on the inputs of this selection
StrictSel ==
    FindUniqueFinishedCandidateByFb(sub_rows, trial_time, target_fb, FALSE)

\* C12: with allow_incomplete set the selector returns an unfinished trial
\* only when no finished trial has the target identity, and whenever the
\* strict search succeeds on the same inputs the best-effort search succeeds
\* too and returns the same source trial.
C12_BestEffortExtendsStrict ==
    (pc = "selected" /\ allow_incomplete) =>
        /\ (sel.status = "ok" /\ SubMaxTime(sel.tid) < trial_time)
              => FinishedMatches = {}
        /\ StrictSel.status = "ok"
              => /\ sel.status = "ok"
                 /\ sel.tid = StrictSel.tid
                 /\ sel.rows = StrictSel.rows

\* a best-effort selection among a finished and an unfinished trial of the
\* target identity, on inputs the strict search succeeds on
C12_Witness ==
    /\ pc = "selected"
    /\ allow_incomplete
    /\ sel.status = "ok"
    /\ StrictSel.status = "ok"
    /\ Matches \ FinishedMatches # {}

\* the speed a record holds for a trial after projection: the substitute's
\* speed of the source where a plan entry names the trial as destination,
\* the record's own speed elsewhere
SpeedAfterProjection(key, t) ==
    IF \E i \in DOMAIN plan :
          <<plan[i].benchmark, plan[i].fuzzer>> = key /\ plan[i].dest = t
      THEN LET i == CHOOSE i \in DOMAIN plan :
                        <<plan[i].benchmark, plan[i].fuzzer>> = key
                        /\ plan[i].dest = t
           IN  speeds_substitute[key][plan[i].src].speed
    ELSE speeds_unfinished[key][t].speed

\* the trials of a record whose speed after projection is a number
NumericTids(key) ==
    {t \in DOMAIN speeds_unfinished[key] : ~SpeedAfterProjection(key, t).nan}

RECURSIVE SumOver(_, _)
SumOver(f, S) ==
    IF S = {} THEN 0
    ELSE LET x == CHOOSE x \in S : TRUE
         IN  f[x] + SumOver(f, S \ {x})

\* the sum of the numeric speeds of a record, each trial once
SpeedTotal(key) ==
    SumOver([t \in NumericTids(key) |-> SpeedAfterProjection(key, t).x],
            NumericTids(key))

\* the sum of squared differences over the pairs of numeric speeds, which
\* is n * (n - 1) times the sample variance
PairwiseSquares(key) ==
    LET pairs == {p \in NumericTids(key) \X NumericTids(key) : p[1] < p[2]}
    IN  SumOver([p \in pairs |->
                    (SpeedAfterProjection(key, p[1]).x
                       - SpeedAfterProjection(key, p[2]).x)
                    * (SpeedAfterProjection(key, p[1]).x
                       - SpeedAfterProjection(key, p[2]).x)],
                pairs)

\* C13: each record written after projection carries the mean and the sample
\* deviation, to two decimals, of the numeric speeds its trials hold after
\* projection (a destination counts with the substituted speed, once, and
\* not with its former one; NaN speeds are left out); the deviation is 0
\* below two numeric speeds and the mean is NaN when there is none.
C13_StatisticsOfCurrentSpeeds ==
    (pc = "done" /\ out_speeds.written) =>
        /\ Len(out_speeds.content) = Cardinality(DOMAIN speeds_unfinished)
        /\ \A i \in DOMAIN out_speeds.content :
              LET row == out_speeds.content[i]
                  key == <<row.benchmark, row.fuzzer>>
                  n == Cardinality(NumericTids(key))
                  total == SpeedTotal(key)
                  squares == PairwiseSquares(key)
                  m == row.mean.x
                  s == row.stdev
              IN  /\ key \in DOMAIN speeds_unfinished
                  /\ (n = 0) <=> row.mean.nan
                  /\ n > 0 => /\ 2 * (n * m - total) <= n
                              /\ 2 * (total - n * m) <= n
                  /\ n < 2 => s = 0
                  /\ n >= 2 =>
                        /\ s >= 0
                        /\ s > 0 => (2 * s - 1) * (2 * s - 1) * n * (n - 1)
                                        <= 4 * squares
                        /\ 4 * squares <= (2 * s + 1) * (2 * s + 1) * n * (n - 1)

\* a record written with a non-zero deviation over two numeric speeds, one
\* of them substituted, next to a record whose only speed is NaN
C13_Witness ==
    /\ pc = "done"
    /\ out_speeds.written
    /\ \E i \in DOMAIN out_speeds.content, k \in DOMAIN plan :
          /\ out_speeds.content[i].stdev > 0
          /\ out_speeds.content[i].benchmark = plan[k].benchmark
          /\ out_speeds.content[i].fuzzer = plan[k].fuzzer
    /\ \E i \in DOMAIN out_speeds.content :
          /\ out_speeds.content[i].mean.nan
          /\ out_speeds.content[i].num_trials = 1

\* C14: when substitute_trials succeeds with allow_incomplete unset, every
\* trial of the output is finished (the largest time over its rows reaches
\* the threshold), and the majority-vote identity of the output rows of each
\* substituted trial is the identity of the unfinished trial it replaces.
C14_StrictOutputFinished ==
    (pc = "substituted" /\ ~allow_incomplete) =>
        /\ \A t \in OutTidSet :
              MaxTimeForTrial(TrialRows(fixed_rows, t)) >= trial_time
        /\ \A i \in DOMAIN plan :
              FuzzerBenchForTrial(TrialRows(fixed_rows, plan[i].dest))
                  = FuzzerBenchForTrial(TrialRows(un_rows, plan[i].dest))

\* a strict substitution made while the substitute dataset also holds an
\* unfinished trial of the replaced trial's identity
C14_Witness ==
    /\ pc = "substituted"
    /\ ~allow_incomplete
    /\ \E i \in DOMAIN plan, t \in SubTidSet :
          /\ SubIdentity(t) = <<plan[i].fuzzer, plan[i].benchmark>>
          /\ SubMaxTime(t) < trial_time
          /\ t # plan[i].src

\* the entries (benchmark, fuzzer, trial id) a plan writes
PlanDestinations ==
    {<<plan[i].benchmark, plan[i].fuzzer, plan[i].dest>> : i \in DOMAIN plan}

\* C15: a successful projection leaves every (benchmark, fuzzer, trial id)
\* entry of the unfinished throughput data that no plan entry names as its
\* destination with the pair it had, removes no entry, and leaves the
\* substitute throughput data as it was.
C15_ProjectionFrame ==
    [][(ApplyPlan /\ pc' = "applied") =>
          /\ \A key \in DOMAIN speeds_unfinished :
                /\ key \in DOMAIN speeds_unfinished'
                /\ \A t \in DOMAIN speeds_unfinished[key] :
                      /\ t \in DOMAIN speeds_unfinished'[key]
                      /\ <<key[1], key[2], t>> \notin PlanDestinations
                            => speeds_unfinished'[key][t]
                                   = speeds_unfinished[key][t]
          /\ speeds_substitute' = speeds_substitute]_vars

\* a projection that has written a destination into a record that also
\* holds a trial no plan entry names, next to a record it has not touched
C15_Witness ==
    /\ pc = "applied"
    /\ plan # <<>>
    /\ \E i \in DOMAIN plan :
          \E t \in DOMAIN speeds_unfinished[<<plan[i].benchmark, plan[i].fuzzer>>] :
              <<plan[i].benchmark, plan[i].fuzzer, t>> \notin PlanDestinations
    /\ \E key \in DOMAIN speeds_unfinished :
          \A i \in DOMAIN plan : <<plan[i].benchmark, plan[i].fuzzer>> # key

====
